---- MODULE Spec2Model ----
(***************************************************************************)
(* Lead import pipeline of the LinkedIn leads admin panel.                 *)
(*                                                                         *)
(* Three batch importers write the `leads` table and the `upload_history`  *)
(* table of one PostgreSQL database through psycopg2 connections:          *)
(*   process_csv        (main.py)            one fresh connection per call *)
(*   upload_csv_to_db   (csv_uploader.py)    one connection, one file      *)
(*   upload_csv_to_db   (upload_all_csvs.py) one connection, many files    *)
(*                                                                         *)
(* A psycopg2 connection opens a transaction at its first statement.  A    *)
(* statement the server rejects leaves the transaction aborted: every      *)
(* later statement on the connection raises until a rollback.  Nothing is  *)
(* visible to other connections before commit(); a connection that is      *)
(* closed or dropped without commit() is rolled back.  A row written by an *)
(* open transaction is locked: an upsert of the same profile_url on        *)
(* another connection waits for the first transaction to end.              *)
(***************************************************************************)
EXTENDS Integers, Sequences, FiniteSets, TLC

\* ---------------------------------------------------------------- bounds
MaxRows == 2        \* data rows per CSV file
MaxImports == 2     \* import invocations in one behaviour

Procs == {"p1", "p2"}           \* concurrently running programs / requests
URLS == {"u1", "u2"}            \* non-empty profile URLs
NULL == "NULL"                  \* SQL NULL / Python None

Kinds == {"process_csv", "csv_uploader", "upload_all_csvs"}
NoKind == "none"

\* ------------------------------------------------------- Record Normalizer
mapping ==
    ("First Name" :> "first_name") @@ ("Last Name" :> "last_name") @@
    ("Headline" :> "headline") @@ ("Location" :> "location") @@
    ("Current Title" :> "current_title") @@
    ("Current Company" :> "current_company") @@
    ("Email Address" :> "email_address") @@
    ("Phone Number" :> "phone_number") @@
    ("Profile URL" :> "profile_url") @@
    ("Active Project" :> "active_project") @@
    ("Notes" :> "notes") @@ ("Feedback" :> "feedback")

Headers == DOMAIN mapping

\* headers outside the table, with what str.lower() makes of each and what
\* str.replace(' ', '_') makes of the lower-cased text
lower ==
    [h \in {"profile url", "Profile Url", "PROFILE URL", "Profile  URL",
            "LinkedIn URL", " Notes", "first_name", "Company Size"} |->
        CASE h = "profile url" -> "profile url"
          [] h = "Profile Url" -> "profile url"
          [] h = "PROFILE URL" -> "profile url"
          [] h = "Profile  URL" -> "profile  url"
          [] h = "LinkedIn URL" -> "linkedin url"
          [] h = " Notes" -> " notes"
          [] h = "first_name" -> "first_name"
          [] h = "Company Size" -> "company size"]

replace ==
    [h \in {"profile url", "profile  url", "linkedin url", " notes",
            "first_name", "company size"} |->
        CASE h = "profile url" -> "profile_url"
          [] h = "profile  url" -> "profile__url"
          [] h = "linkedin url" -> "linkedin_url"
          [] h = " notes" -> "_notes"
          [] h = "first_name" -> "first_name"
          [] h = "company size" -> "company_size"]

\* mapping.get(name, name.lower().replace(' ', '_'))
normalize_column_name_as_is(name) ==
    IF name \in DOMAIN mapping THEN mapping[name] ELSE name

normalize_column_name(name) ==
    IF name \in DOMAIN mapping THEN mapping[name] ELSE replace[lower[name]]

\* data = {normalize_column_name(k): v for k, v in row.items()}
Normalize(row) ==
    [f \in {normalize_column_name(h) : h \in DOMAIN row} |->
        row[CHOOSE h \in DOMAIN row : normalize_column_name(h) = f]]

FillHeaders == {"Email Address", "Phone Number", "Notes", "Feedback"}

\* One parsed CSV row (csv.DictReader): header -> cell.
RawRow(url, rv, fv) ==
    [h \in Headers |->
        IF h = "Profile URL" THEN url
        ELSE IF h \in FillHeaders THEN fv ELSE rv]

\* The rows csv.DictReader can yield.  A file is the sequence of rows the
\* reader yields before it is exhausted, at most MaxRows of them.
\* Rows: with and without profile_url ('' for an empty cell, None for a
\* missing cell or column).
Rows ==
    {RawRow("u1", "a", "a"), RawRow("u2", "a", "a"),
     RawRow("", "a", "a"), RawRow(NULL, "a", "a")}

\* ConcRows: the rows of the files imported while imports overlap in time.
ConcRows == {RawRow("u1", "a", "a"), RawRow("u2", "a", "a")}

\* FieldRows: one profile_url with filled, empty and missing cells.
FieldRows ==
    {RawRow("u1", "a", "a"), RawRow("u1", "", ""), RawRow("u1", NULL, NULL)}

NoData == [f \in {} |-> NULL]

\* `not data.get('profile_url')` is false
HasKeyNoEmptyCheck(d) ==
    "profile_url" \in DOMAIN d /\ d["profile_url"] # NULL

HasKey(d) ==
    "profile_url" \in DOMAIN d /\ d["profile_url"] \notin {NULL, ""}

\* ------------------------------------------------------------ Upsert Engine
NULLIF(a, b) == IF a = b THEN NULL ELSE a
COALESCE(a, b) == IF a # NULL THEN a ELSE b

\* INSERT INTO leads (...) VALUES (...)
InsertValues(d, id) ==
    [id |-> id,
     first_name |-> d["first_name"], last_name |-> d["last_name"],
     headline |-> d["headline"], location |-> d["location"],
     current_title |-> d["current_title"],
     current_company |-> d["current_company"],
     email_address |-> d["email_address"],
     phone_number |-> d["phone_number"],
     profile_url |-> d["profile_url"],
     active_project |-> d["active_project"],
     notes |-> d["notes"], feedback |-> d["feedback"]]

\* ON CONFLICT (profile_url) DO UPDATE SET ...   (l: stored row, d: EXCLUDED)
DoUpdateAllReplace(l, d) ==
    [l EXCEPT
        !.first_name = d["first_name"], !.last_name = d["last_name"],
        !.headline = d["headline"], !.location = d["location"],
        !.current_title = d["current_title"],
        !.current_company = d["current_company"],
        !.email_address = d["email_address"],
        !.phone_number = d["phone_number"],
        !.active_project = d["active_project"],
        !.notes = d["notes"], !.feedback = d["feedback"]]

DoUpdate(l, d) ==
    [l EXCEPT
        !.first_name = d["first_name"], !.last_name = d["last_name"],
        !.headline = d["headline"], !.location = d["location"],
        !.current_title = d["current_title"],
        !.current_company = d["current_company"],
        !.email_address = COALESCE(NULLIF(d["email_address"], ""), l.email_address),
        !.phone_number = COALESCE(NULLIF(d["phone_number"], ""), l.phone_number),
        !.active_project = d["active_project"],
        !.notes = COALESCE(NULLIF(d["notes"], ""), l.notes),
        !.feedback = COALESCE(NULLIF(d["feedback"], ""), l.feedback)]

\* the stored rows the unique index on profile_url reports as conflicting
NoConflict(view, d) == {}

Conflict(view, d) == {l \in view : l.profile_url = d["profile_url"]}

\* the table as the statement leaves it
UpsertLeadsReplace(view, d, id) ==
    (view \ Conflict(view, d)) \cup {InsertValues(d, id)}

UpsertLeads(view, d, id) ==
    IF Conflict(view, d) = {}
    THEN view \cup {InsertValues(d, id)}
    ELSE (view \ Conflict(view, d)) \cup {DoUpdate(l, d) : l \in Conflict(view, d)}

\* RETURNING (xmax = 0) AS inserted
InsertedAlways(view, d) == TRUE

Inserted(view, d) == Conflict(view, d) = {}

\* 'success' if rows_failed == 0 else 'partial'   (process_csv)
\* 'success'                                      (both upload_csv_to_db)
Status(k, failed) ==
    IF k = "process_csv"
    THEN (IF failed = 0 THEN "success" ELSE "partial")
    ELSE "success"

\* the rows run_dedupe() removes: every row that shares its profile_url with
\* an earlier row
DedupeRemoved(view) ==
    {l \in view : l.profile_url \notin {NULL, ""} /\
        \E m \in view : m.profile_url = l.profile_url /\ m.id < l.id}

\* ------------------------------------------------------------------- state
VARIABLES
    leads,            \* committed rows of table leads
    history,          \* committed rows of table upload_history, oldest first
    nextId,           \* sequence behind leads.id
    started,          \* number of imports started
    committedWrites,  \* files whose lead writes have been committed
    tx,               \* per connection: "none", "idle", "open", "aborted"
    pend,             \* per connection: rows written by the open transaction
    pdel,             \* per connection: ids deleted by the open transaction
    phist,            \* per connection: upload_history rows not yet committed
    wrote,            \* per connection: files with lead writes in the open transaction
    pc,               \* per program: position in the importer
    kind,             \* per program: which importer runs
    filename,         \* per program: the file being imported
    idx,              \* per program: rows read so far
    data,             \* per program: the normalized row last read
    rows_inserted, rows_updated, rows_failed, dedupe_result,
    errors,           \* per program: process_csv's error descriptions
    nokey,            \* per program: rows read that had no profile_url
    faults,           \* per program: row writes the storage rejected
    file,             \* the rows of the file that is imported repeatedly
    task_status,      \* table task_status: one row per task name
    dedup,            \* the thread run_deduplication_background
    filt,             \* a run of AI filtering
    hookgen,          \* a run of hook generation
    lead_hooks,       \* columns hook, hook_generated_at of leads, by id
    dedup_other,      \* another thread run_deduplication_background
    hook_generation_logs,  \* the in-memory list of log entries, oldest first
    polled            \* /api/task-status was served while a task was marked running

dbVars == <<leads, history, nextId, committedWrites>>
connVars == <<tx, pend, pdel, phist, wrote>>
locVars == <<kind, filename, idx, data, rows_inserted, rows_updated,
             rows_failed, dedupe_result, errors>>
ghostVars == <<nokey, faults>>
startVars == <<dedup_other, polled>>
logVars == <<hook_generation_logs>>
taskVars == <<task_status, dedup, filt, hookgen, lead_hooks, startVars, logVars>>
otherVars == <<file, taskVars>>
vars == <<dbVars, connVars, locVars, ghostVars, pc, started, otherVars>>

Ids(S) == {l.id : l \in S}

\* what connection c reads: committed rows overlaid with its own writes
ViewOwnWrites(c) == pend[c]

View(c) == {l \in leads : l.id \notin (Ids(pend[c]) \cup pdel[c])} \cup pend[c]

\* another open transaction holds the row lock / the index entry of url
NeverBlocked(c, url) == FALSE

Blocked(c, url) ==
    \E d \in Procs \ {c} : \E l \in pend[d] : l.profile_url = url

\* upload_all_csvs.main uses one connection for all its files, also after
\* its except clause caught a failed file; process_csv and csv_uploader.main
\* own the connection of one file and lose it with the call
KeepsConnAlways(k) == TRUE

KeepsConn(k) == k = "upload_all_csvs"

\* INSERT INTO task_status (task_name) VALUES (...): the column defaults
NotStarted ==
    [running |-> FALSE, progress |-> 0, total |-> 0, current |-> 0,
     stat_value |-> 0, message |-> "Not started", completed |-> FALSE]

\* locals of run_deduplication_background; table0 remembers the table the
\* run found, prev how the run before it ended
NoDedup ==
    [pc |-> "idle", duplicates |-> <<>>, todo |-> {}, idx |-> 0,
     total_groups |-> 0, total_removed |-> 0, prev |-> "none",
     table0 |-> {}]

\* locals of a filtering run; outs remembers what the service answered for
\* each lead
NoFilter ==
    [pc |-> "idle", which |-> "none", all_leads |-> {}, pending |-> {},
     outs |-> <<>>, leads_to_remove |-> {}, leads_to_keep |-> {},
     completed |-> 0]

\* locals of a hook generation run; failed remembers the leads for which
\* the service raised or gave no text, generated the hooks the run counted
\* as generated.  batch_buffer is kept as a set: its items have different
\* ids, so their order changes nothing
NoHookRun ==
    [pc |-> "idle", which |-> "none", all_leads |-> {}, pending |-> {},
     failed |-> {}, generated |-> {}, batch_buffer |-> {},
     hooks_generated |-> 0, completed |-> 0]

\* the log of a specification that does not observe it: what is appended
\* to it is not recorded
Unobserved == <<0>>

TaskNames == {"filtering", "hook_generation", "deduplication"}

\* no background task has been started
InitThreads ==
    /\ dedup = NoDedup
    /\ dedup_other = NoDedup
    /\ polled = FALSE
    /\ filt = NoFilter
    /\ hookgen = NoHookRun
    /\ hook_generation_logs = Unobserved

InitTasks ==
    /\ task_status = [t \in TaskNames |-> NotStarted]
    /\ InitThreads

\* no program running, nothing imported yet
InitIdle ==
    /\ history = <<>>
    /\ nextId = 1
    /\ started = 0
    /\ committedWrites = {}
    /\ tx = [c \in Procs |-> "none"]
    /\ pend = [c \in Procs |-> {}]
    /\ pdel = [c \in Procs |-> {}]
    /\ phist = [c \in Procs |-> <<>>]
    /\ wrote = [c \in Procs |-> {}]
    /\ pc = [c \in Procs |-> "idle"]
    /\ kind = [c \in Procs |-> NoKind]
    /\ filename = [c \in Procs |-> 0]
    /\ idx = [c \in Procs |-> 0]
    /\ data = [c \in Procs |-> NoData]
    /\ rows_inserted = [c \in Procs |-> 0]
    /\ rows_updated = [c \in Procs |-> 0]
    /\ rows_failed = [c \in Procs |-> 0]
    /\ dedupe_result = [c \in Procs |-> 0]
    /\ errors = [c \in Procs |-> <<>>]
    /\ nokey = [c \in Procs |-> 0]
    /\ faults = [c \in Procs |-> 0]

\* an empty database
InitImport ==
    /\ leads = {}
    /\ InitIdle

Init ==
    /\ InitImport
    /\ InitTasks
    /\ lead_hooks = <<>>
    /\ file = <<>>

Ended(c) == pc[c] \in {"idle", "done", "raised"}

\* a new program takes the first slot that holds no connection
SlotBefore(q, c) == q = "p1" /\ c = "p2"

\* the programs of a behaviour in which imports do not overlap
One == {"p1"}

\* locals of a fresh call of the importer
BeginFile(c, k) ==
    /\ started < MaxImports
    /\ started' = started + 1
    /\ pc' = [pc EXCEPT ![c] = "rows"]
    /\ kind' = [kind EXCEPT ![c] = k]
    /\ filename' = [filename EXCEPT ![c] = started + 1]
    /\ idx' = [idx EXCEPT ![c] = 0]
    /\ data' = [data EXCEPT ![c] = NoData]
    /\ rows_inserted' = [rows_inserted EXCEPT ![c] = 0]
    /\ rows_updated' = [rows_updated EXCEPT ![c] = 0]
    /\ rows_failed' = [rows_failed EXCEPT ![c] = 0]
    /\ dedupe_result' = [dedupe_result EXCEPT ![c] = 0]
    /\ errors' = [errors EXCEPT ![c] = <<>>]
    /\ nokey' = [nokey EXCEPT ![c] = 0]
    /\ faults' = [faults EXCEPT ![c] = 0]
    /\ UNCHANGED otherVars

\* a program starts: process_csv is called, or a script's main connects and
\* calls upload_csv_to_db on its first file
StartImport(c, k) ==
    /\ Ended(c)
    /\ tx[c] = "none"
    /\ \A q \in Procs : SlotBefore(q, c) => tx[q] # "none"
    /\ BeginFile(c, k)
    /\ tx' = [tx EXCEPT ![c] = "idle"]
    /\ UNCHANGED <<dbVars, pend, pdel, phist, wrote>>

\* upload_all_csvs.main goes on to its next file on the same connection
NextFile(c) ==
    /\ pc[c] \in {"done", "raised"}
    /\ KeepsConn(kind[c])
    /\ tx[c] # "none"
    /\ BeginFile(c, kind[c])
    /\ UNCHANGED <<dbVars, connVars>>

\* upload_all_csvs.main has no file left: conn.close()
CloseConn(c) ==
    /\ pc[c] \in {"done", "raised"}
    /\ KeepsConn(kind[c])
    /\ tx[c] # "none"
    /\ tx' = [tx EXCEPT ![c] = "none"]
    /\ pend' = [pend EXCEPT ![c] = {}]
    /\ pdel' = [pdel EXCEPT ![c] = {}]
    /\ phist' = [phist EXCEPT ![c] = <<>>]
    /\ wrote' = [wrote EXCEPT ![c] = {}]
    /\ pc' = [pc EXCEPT ![c] = "idle"]
    /\ kind' = [kind EXCEPT ![c] = NoKind]
    /\ UNCHANGED <<dbVars, ghostVars, started, otherVars, filename, idx, data,
                   rows_inserted, rows_updated, rows_failed, dedupe_result,
                   errors>>

\* ------------------------------------------------------------ Batch Importer
\* the reader has another row
AtRow(c) == pc[c] = "rows" /\ idx[c] < MaxRows

\* the call ends: its locals are gone (the file name stays for reference)
DropLocals(c) ==
    /\ idx' = [idx EXCEPT ![c] = 0]
    /\ data' = [data EXCEPT ![c] = NoData]
    /\ rows_inserted' = [rows_inserted EXCEPT ![c] = 0]
    /\ rows_updated' = [rows_updated EXCEPT ![c] = 0]
    /\ rows_failed' = [rows_failed EXCEPT ![c] = 0]
    /\ dedupe_result' = [dedupe_result EXCEPT ![c] = 0]
    /\ errors' = [errors EXCEPT ![c] = <<>>]
    /\ nokey' = [nokey EXCEPT ![c] = 0]
    /\ faults' = [faults EXCEPT ![c] = 0]
    /\ UNCHANGED filename

\* an exception leaves the importer
Raise(c, txAfter) ==
    /\ pc' = [pc EXCEPT ![c] = "raised"]
    /\ DropLocals(c)
    /\ IF KeepsConn(kind[c])
       THEN /\ tx' = [tx EXCEPT ![c] = txAfter]
            /\ UNCHANGED <<pend, pdel, phist, wrote, kind>>
       ELSE /\ tx' = [tx EXCEPT ![c] = "none"]
            /\ kind' = [kind EXCEPT ![c] = NoKind]
            /\ pend' = [pend EXCEPT ![c] = {}]
            /\ pdel' = [pdel EXCEPT ![c] = {}]
            /\ phist' = [phist EXCEPT ![c] = <<>>]
            /\ wrote' = [wrote EXCEPT ![c] = {}]

\* enumerate(csv_reader, start=2): the number of the row being read
FirstRowNum == 2

row_num(c) == idx[c] + FirstRowNum

\* errors.append(f"Row {row_num}: ..."); the other importers keep no list
AppendError(c, text) ==
    errors' = [errors EXCEPT ![c] =
        IF kind[c] = "process_csv"
        THEN Append(@, [row_num |-> row_num(c), text |-> text])
        ELSE @]

\* a row without profile_url: counted as failed, `continue`
MissingKey(c, R) ==
    /\ AtRow(c)
    /\ \E row \in R :
        LET d == Normalize(row) IN
        /\ ~HasKey(d)
        /\ data' = [data EXCEPT ![c] = d]
    /\ nokey' = [nokey EXCEPT ![c] = @ + 1]
    /\ idx' = [idx EXCEPT ![c] = @ + 1]
    /\ rows_failed' = [rows_failed EXCEPT ![c] = @ + 1]
    /\ AppendError(c, "Missing profile URL")
    /\ UNCHANGED <<dbVars, connVars, faults, pc, started, otherVars, kind, filename,
                   rows_inserted, rows_updated, dedupe_result>>

\* cursor.execute(query, data) succeeds; fetchone() tells the branch
UpsertRow(c, R) ==
    /\ AtRow(c)
    /\ tx[c] \in {"idle", "open"}
    /\ \E row \in R :
        LET d == Normalize(row)
            v == View(c)
            nv == UpsertLeads(v, d, nextId)
        IN
        /\ HasKey(d)
        /\ ~Blocked(c, d["profile_url"])
        /\ data' = [data EXCEPT ![c] = d]
        /\ pend' = [pend EXCEPT ![c] =
                {l \in nv : l.id \in Ids(@) \/ l.profile_url = d["profile_url"]}]
        /\ nextId' = IF nextId \in Ids(nv) THEN nextId + 1 ELSE nextId
        /\ IF Inserted(v, d)
           THEN /\ rows_inserted' = [rows_inserted EXCEPT ![c] = @ + 1]
                /\ UNCHANGED rows_updated
           ELSE /\ rows_updated' = [rows_updated EXCEPT ![c] = @ + 1]
                /\ UNCHANGED rows_inserted
    /\ tx' = [tx EXCEPT ![c] = "open"]
    /\ wrote' = [wrote EXCEPT ![c] = @ \cup {filename[c]}]
    /\ idx' = [idx EXCEPT ![c] = @ + 1]
    /\ UNCHANGED <<leads, history, committedWrites, pdel, phist, ghostVars,
                   pc, started, otherVars, kind, filename, rows_failed,
                   dedupe_result, errors>>

\* the server rejects the statement (or the connection breaks): the except
\* clause counts the row; the transaction is left aborted
RowWriteError(c, R) ==
    /\ AtRow(c)
    /\ tx[c] \in {"idle", "open"}
    /\ \E row \in R :
        LET d == Normalize(row) IN
        /\ HasKey(d)
        /\ data' = [data EXCEPT ![c] = d]
    /\ tx' = [tx EXCEPT ![c] = "aborted"]
    /\ idx' = [idx EXCEPT ![c] = @ + 1]
    /\ rows_failed' = [rows_failed EXCEPT ![c] = @ + 1]
    /\ faults' = [faults EXCEPT ![c] = @ + 1]
    /\ AppendError(c, "str(e)")
    /\ UNCHANGED <<dbVars, pend, pdel, phist, wrote, nokey,
                   pc, started, otherVars, kind, filename, rows_inserted,
                   rows_updated, dedupe_result>>

\* cursor.execute in an aborted transaction raises InFailedSqlTransaction
RowWriteAborted(c, R) ==
    /\ AtRow(c)
    /\ tx[c] = "aborted"
    /\ \E row \in R :
        LET d == Normalize(row) IN
        /\ HasKey(d)
        /\ data' = [data EXCEPT ![c] = d]
    /\ idx' = [idx EXCEPT ![c] = @ + 1]
    /\ rows_failed' = [rows_failed EXCEPT ![c] = @ + 1]
    /\ AppendError(c, "str(e)")
    /\ UNCHANGED <<dbVars, connVars, ghostVars, pc, started, otherVars, kind, filename,
                   rows_inserted, rows_updated, dedupe_result>>

\* the reader raises csv.Error in the `for` statement, outside the try
ParseError(c) ==
    /\ AtRow(c)
    /\ Raise(c, tx[c])
    /\ UNCHANGED <<dbVars, started, otherVars>>

\* errors[:10]
SampleSize == 10

Sample(errs) == SubSeq(errs, 1, IF Len(errs) < SampleSize THEN Len(errs) ELSE SampleSize)

HistoryRow(c) ==
    [filename |-> filename[c],
     rows_inserted |-> rows_inserted[c],
     rows_updated |-> rows_updated[c],
     rows_failed |-> rows_failed[c],
     status |-> Status(kind[c], rows_failed[c]),
     error_message |-> IF kind[c] = "process_csv" /\ errors[c] # <<>>
                       THEN Sample(errors[c]) ELSE NULL]

\* the reader is exhausted: INSERT INTO upload_history
WriteHistoryTwice(c) ==
    /\ pc[c] = "rows"
    /\ tx[c] \in {"idle", "open"}
    /\ phist' = [phist EXCEPT ![c] = Append(Append(@, HistoryRow(c)), HistoryRow(c))]
    /\ tx' = [tx EXCEPT ![c] = "open"]
    /\ pc' = [pc EXCEPT ![c] =
            IF kind[c] = "process_csv" THEN "dedupe" ELSE "commit"]
    /\ UNCHANGED <<dbVars, pend, pdel, wrote, locVars, ghostVars, started, otherVars>>

WriteHistory(c) ==
    /\ pc[c] = "rows"
    /\ tx[c] \in {"idle", "open"}
    /\ phist' = [phist EXCEPT ![c] = Append(@, HistoryRow(c))]
    /\ tx' = [tx EXCEPT ![c] = "open"]
    /\ pc' = [pc EXCEPT ![c] =
            IF kind[c] = "process_csv" THEN "dedupe" ELSE "commit"]
    /\ UNCHANGED <<dbVars, pend, pdel, wrote, locVars, ghostVars, started, otherVars>>

\* the summary write raises: always in an aborted transaction, possibly
\* otherwise
HistoryError(c) ==
    /\ pc[c] = "rows"
    /\ tx[c] # "none"
    /\ Raise(c, "aborted")
    /\ UNCHANGED <<dbVars, started, otherVars>>

\* cursor.execute("SELECT run_dedupe()") in process_csv
RunDedupe(c) ==
    /\ pc[c] = "dedupe"
    /\ LET gone == DedupeRemoved(View(c)) IN
        /\ pdel' = [pdel EXCEPT ![c] = @ \cup Ids(gone)]
        /\ pend' = [pend EXCEPT ![c] = @ \ gone]
        /\ dedupe_result' = [dedupe_result EXCEPT ![c] = Cardinality(gone)]
    /\ pc' = [pc EXCEPT ![c] = "commit"]
    /\ UNCHANGED <<dbVars, tx, phist, wrote, ghostVars, started, otherVars, kind,
                   filename, idx, data, rows_inserted, rows_updated,
                   rows_failed, errors>>

DedupeError(c) ==
    /\ pc[c] = "dedupe"
    /\ Raise(c, "aborted")
    /\ UNCHANGED <<dbVars, started, otherVars>>

\* conn.commit(); the importer returns its counts.  process_csv and
\* csv_uploader.main close the connection next.
Commit(c) ==
    /\ pc[c] = "commit"
    /\ leads' = View(c)
    /\ history' = history \o phist[c]
    /\ committedWrites' = committedWrites \cup wrote[c]
    /\ tx' = [tx EXCEPT ![c] = IF KeepsConn(kind[c]) THEN "idle" ELSE "none"]
    /\ kind' = [kind EXCEPT ![c] = IF KeepsConn(kind[c]) THEN @ ELSE NoKind]
    /\ pend' = [pend EXCEPT ![c] = {}]
    /\ pdel' = [pdel EXCEPT ![c] = {}]
    /\ phist' = [phist EXCEPT ![c] = <<>>]
    /\ wrote' = [wrote EXCEPT ![c] = {}]
    /\ pc' = [pc EXCEPT ![c] = "done"]
    /\ DropLocals(c)
    /\ UNCHANGED <<nextId, started, otherVars>>

\* the connection is lost at commit
CommitError(c) ==
    /\ pc[c] = "commit"
    /\ Raise(c, "aborted")
    /\ UNCHANGED <<dbVars, started, otherVars>>

\* programs and requests overlap in time; every row carries a profile_url
Next ==
    \/ \E c \in Procs, k \in Kinds : StartImport(c, k)
    \/ \E c \in Procs : NextFile(c)
    \/ \E c \in Procs : CloseConn(c)
    \/ \E c \in Procs : UpsertRow(c, ConcRows)
    \/ \E c \in Procs : RowWriteError(c, ConcRows)
    \/ \E c \in Procs : RowWriteAborted(c, ConcRows)
    \/ \E c \in Procs : ParseError(c)
    \/ \E c \in Procs : WriteHistory(c)
    \/ \E c \in Procs : HistoryError(c)
    \/ \E c \in Procs : RunDedupe(c)
    \/ \E c \in Procs : DedupeError(c)
    \/ \E c \in Procs : Commit(c)
    \/ \E c \in Procs : CommitError(c)

Spec == Init /\ [][Next]_vars

\* one program at a time, each import after the other; rows with and
\* without profile_url
NextSeq ==
    \/ \E c \in One, k \in Kinds : StartImport(c, k)
    \/ \E c \in One : NextFile(c)
    \/ \E c \in One : CloseConn(c)
    \/ \E c \in One : MissingKey(c, Rows)
    \/ \E c \in One : UpsertRow(c, Rows)
    \/ \E c \in One : RowWriteError(c, Rows)
    \/ \E c \in One : RowWriteAborted(c, Rows)
    \/ \E c \in One : ParseError(c)
    \/ \E c \in One : WriteHistory(c)
    \/ \E c \in One : HistoryError(c)
    \/ \E c \in One : RunDedupe(c)
    \/ \E c \in One : DedupeError(c)
    \/ \E c \in One : Commit(c)
    \/ \E c \in One : CommitError(c)

SpecSeq == Init /\ [][NextSeq]_vars

\* one program at a time; the rows rewrite one lead with filled, empty and
\* missing cells
NextFields ==
    \/ \E c \in One, k \in Kinds : StartImport(c, k)
    \/ \E c \in One : NextFile(c)
    \/ \E c \in One : CloseConn(c)
    \/ \E c \in One : UpsertRow(c, FieldRows)
    \/ \E c \in One : RowWriteError(c, FieldRows)
    \/ \E c \in One : RowWriteAborted(c, FieldRows)
    \/ \E c \in One : ParseError(c)
    \/ \E c \in One : WriteHistory(c)
    \/ \E c \in One : HistoryError(c)
    \/ \E c \in One : RunDedupe(c)
    \/ \E c \in One : DedupeError(c)
    \/ \E c \in One : Commit(c)
    \/ \E c \in One : CommitError(c)

SpecFields == Init /\ [][NextFields]_vars

\* the files one upload can carry: up to MaxRows rows, with and without
\* profile_url
Files == UNION {[1..n -> Rows] : n \in 0..MaxRows}

\* next(csv_reader): the row the reader yields, none at the end of the file
RowAt(c) == IF idx[c] < Len(file) THEN {file[idx[c] + 1]} ELSE {}

\* the `for` loop ends when the reader is exhausted
FileEnd(c) == idx[c] = Len(file) /\ WriteHistory(c)

\* the same file is uploaded to /upload again and again; storage accepts
\* every statement
InitTwice ==
    /\ InitImport
    /\ InitTasks
    /\ lead_hooks = <<>>
    /\ file \in Files

NextTwice ==
    \/ \E c \in One : StartImport(c, "process_csv")
    \/ \E c \in One : MissingKey(c, RowAt(c))
    \/ \E c \in One : UpsertRow(c, RowAt(c))
    \/ \E c \in One : FileEnd(c)
    \/ \E c \in One : RunDedupe(c)
    \/ \E c \in One : Commit(c)

SpecTwice == InitTwice /\ [][NextTwice]_vars

\* a row whose profile URL column is headed keyHeader and which has the
\* columns extra besides the other eleven of the table
NamedRow(url, keyHeader, extra) ==
    [h \in (Headers \ {"Profile URL"}) \cup {keyHeader} \cup extra |->
        IF h = keyHeader THEN url ELSE "a"]

KeyHeaders ==
    {"Profile URL", "profile url", "Profile Url", "PROFILE URL",
     "Profile  URL", "LinkedIn URL"}

ExtraHeaders == {{}, {" Notes"}, {"Company Size"}, {"first_name"}}

\* files of one row under any of these headers
NamedFiles ==
    {<<NamedRow("u1", k, e)>> : k \in KeyHeaders, e \in ExtraHeaders}

\* a file with headers of its own is uploaded to /upload
InitNames ==
    /\ InitImport
    /\ InitTasks
    /\ lead_hooks = <<>>
    /\ file \in NamedFiles

SpecNames == InitNames /\ [][NextTwice]_vars

\* -------------------------------------------------------------- Deduplicator
MaxLeads == 4

LinkedinUrls == <<"L1", "L2", NULL, "">>
CreatedAts == {1, 2}

\* profile_url is unique where present: lead i has its own or none
ProfileUrlOf == <<"u1", "u2", "u3", "u4", "u5", "u6">>

\* a lead as the deduplication query sees it
DedupLead(id, purl, lurl, at) ==
    [id |-> id, profile_url |-> IF purl = NULL THEN NULL ELSE ProfileUrlOf[id],
     linkedin_url |-> lurl, created_at |-> at]

\* what a lead can look like to the query: its linkedin_url, its created_at
\* and whether it has a profile_url
LeadKinds == [linkedin_url : 1..Len(LinkedinUrls), created_at : CreatedAts,
              profile_url : {"own", NULL}]

KindLess(a, b) ==
    \/ a.linkedin_url < b.linkedin_url
    \/ a.linkedin_url = b.linkedin_url /\ a.created_at > b.created_at
    \/ a.linkedin_url = b.linkedin_url /\ a.created_at = b.created_at
        /\ a.profile_url = "own" /\ b.profile_url = NULL

\* the sequences of n kinds, none before a lesser one, all at or after lo
RECURSIVE KindsInOrder(_, _)
KindsInOrder(n, lo) ==
    IF n = 0 THEN {<<>>}
    ELSE UNION {{<<k>> \o q : q \in KindsInOrder(n - 1, {k})} :
                k \in {x \in LeadKinds : \A l \in lo : ~KindLess(x, l)}}

\* the tables of up to MaxLeads leads.  No statement looks at the value of
\* an id, so one numbering of each table is enough; in it the ids do not
\* follow created_at
TableOf(q) ==
    {DedupLead(i, q[i].profile_url, LinkedinUrls[q[i].linkedin_url],
               q[i].created_at) : i \in 1..Len(q)}

\* update_task_status(task_name, **kwargs)
\* UPDATE task_status SET ... WHERE task_name = %s: no row, no change
update_task_status(ts, task_name, kwargs) ==
    IF task_name \notin DOMAIN ts THEN ts
    ELSE [ts EXCEPT ![task_name] =
            [f \in DOMAIN @ |-> IF f \in DOMAIN kwargs THEN kwargs[f] ELSE @[f]]]

\* what the deduplication task never touches
importState == <<history, nextId, committedWrites, connVars, locVars,
                 ghostVars, pc, started, file>>
dedupFrame == <<importState, filt, hookgen, lead_hooks, startVars, logVars>>

\* get_task_status(task_name) returns None when the row is missing:
\* `status and status['running']`
RunningAlways(ts, task_name) == task_name \in DOMAIN ts

TaskRunning(ts, task_name) == task_name \in DOMAIN ts /\ ts[task_name].running

\* /api/start-deduplication: refused while the task is marked running
api_start_deduplication ==
    /\ dedup.pc \in {"idle", "done", "error"}
    /\ ~TaskRunning(task_status, "deduplication")
    /\ dedup' = [NoDedup EXCEPT !.pc = "start", !.prev = dedup.pc]
    /\ UNCHANGED <<task_status, leads, dedupFrame>>

\* the thread starts: status row initialised, connection opened
DedupBegin ==
    /\ dedup.pc = "start"
    /\ task_status' = update_task_status(task_status, "deduplication",
            [running |-> TRUE, message |-> "Starting deduplication...",
             progress |-> 0, stat_value |-> 0])
    /\ dedup' = [dedup EXCEPT !.pc = "select", !.table0 = leads]
    /\ UNCHANGED <<leads, dedupFrame>>

\* WHERE linkedin_url IS NOT NULL AND linkedin_url != ''
GroupedAll(l) == TRUE

Grouped(l) == l.linkedin_url # NULL /\ l.linkedin_url # ""

\* GROUP BY linkedin_url HAVING COUNT(*) > 1
GroupOf(table, url) == {l \in table : Grouped(l) /\ l.linkedin_url = url}

DupUrls(table) ==
    {l.linkedin_url : l \in {m \in table : Cardinality(GroupOf(table, m.linkedin_url)) > 1}}

\* ids in ascending order
RECURSIVE Ascending(_)
Ascending(S) ==
    IF S = {} THEN <<>>
    ELSE LET m == CHOOSE x \in S : \A y \in S : x <= y
         IN <<m>> \o Ascending(S \ {m})

\* array_agg(id ORDER BY created_at): the first id is that of a row with the
\* least created_at, any of them when several rows share it.  The code uses
\* the ids after the first only as a set (ids[1:] in ANY, and its length),
\* so they are listed in one order
AnyFirst(G) == G

Earliest(G) == {f \in G : \A g \in G : f.created_at <= g.created_at}

OrderByCreatedAt(G) ==
    {<<f.id>> \o Ascending({g.id : g \in G \ {f}}) : f \in Earliest(G)}

\* the rows the SELECT can return, as url -> (count, ids)
DuplicateRows(table) ==
    {d \in [DupUrls(table) ->
            UNION {[count : {Cardinality(GroupOf(table, u))},
                    ids : OrderByCreatedAt(GroupOf(table, u))] : u \in DupUrls(table)}] :
        \A u \in DupUrls(table) : d[u].ids \in OrderByCreatedAt(GroupOf(table, u))}

\* the duplicate groups are read; their number goes to the status row
DedupSelect ==
    /\ dedup.pc = "select"
    /\ \E d \in DuplicateRows(leads) :
        dedup' = [dedup EXCEPT !.pc = "loop", !.duplicates = d,
                               !.todo = DOMAIN d,
                               !.total_groups = Cardinality(DOMAIN d)]
    /\ task_status' = update_task_status(task_status, "deduplication",
            [total |-> Cardinality(DupUrls(leads)), message |-> "Found"])
    /\ UNCHANGED <<leads, dedupFrame>>

\* ids[1:]
DeleteAll(ids) == {ids[i] : i \in 1..Len(ids)}

ids_to_delete(ids) == {ids[i] : i \in 2..Len(ids)}

\* the status row is written every StatusEvery groups and at the last one
StatusEvery == 10

\* DELETE FROM leads WHERE id = ANY(%s)
DeleteNone(table, gone) == table

DeleteFrom(table, gone) == {l \in table : l.id \notin gone}

\* one turn of the loop: DELETE ... WHERE id = ANY(ids_to_delete), commit
DedupGroup ==
    /\ dedup.pc = "loop"
    /\ \E url \in dedup.todo :
        LET gone == ids_to_delete(dedup.duplicates[url].ids)
            n == dedup.idx + 1
            removed == dedup.total_removed + Cardinality(gone)
        IN
        /\ leads' = DeleteFrom(leads, gone)
        /\ dedup' = [dedup EXCEPT !.todo = @ \ {url}, !.idx = n,
                                   !.total_removed = removed]
        /\ task_status' =
            IF n % StatusEvery = 0 \/ n = dedup.total_groups
            THEN update_task_status(task_status, "deduplication",
                    [current |-> n,
                     progress |-> (n * 100) \div dedup.total_groups,
                     stat_value |-> removed, message |-> "Processed"])
            ELSE task_status
    /\ UNCHANGED dedupFrame

\* the loop is over: connection closed, task marked complete
DedupFinish ==
    /\ dedup.pc = "loop"
    /\ dedup.todo = {}
    /\ dedup' = [dedup EXCEPT !.pc = "done"]
    /\ task_status' = update_task_status(task_status, "deduplication",
            [running |-> FALSE, progress |-> 100, completed |-> TRUE,
             message |-> "Complete"])
    /\ UNCHANGED <<leads, dedupFrame>>

\* a statement or the connection fails: the except clause marks the task
\* stopped; the groups deleted so far stay deleted (each was committed)
DedupRaise ==
    /\ dedup.pc \in {"select", "loop"}
    /\ dedup' = [dedup EXCEPT !.pc = "error"]
    /\ task_status' = update_task_status(task_status, "deduplication",
            [running |-> FALSE, message |-> "Error"])
    /\ UNCHANGED <<leads, dedupFrame>>

\* the deduplication task works alone on a table of leads
InitDedup ==
    /\ lead_hooks = <<>>
    /\ \E n \in 0..MaxLeads : \E q \in KindsInOrder(n, {}) : leads = TableOf(q)
    /\ InitIdle
    /\ InitTasks
    /\ file = <<>>

NextDedup ==
    \/ api_start_deduplication
    \/ DedupBegin
    \/ DedupSelect
    \/ DedupGroup
    \/ DedupFinish
    \/ DedupRaise

SpecDedup == InitDedup /\ [][NextDedup]_vars

\* -------------------------------------------------------------- AI filtering
\* what chat.completions.create can do: raise, answer without content, or
\* answer with a text
Raises == [raises |-> TRUE, content |-> NULL]
Answer(content) == [raises |-> FALSE, content |-> content]

\* answers to analyze_lead_worker's prompt ("Respond with ONLY: KEEP or
\* REMOVE"), each with its words
VerdictWords ==
    [t \in {"KEEP", "REMOVE", " remove\n", "DO NOT REMOVE", "UNSURE", ""} |->
        CASE t = "KEEP" -> <<"KEEP">>
          [] t = "REMOVE" -> <<"REMOVE">>
          [] t = " remove\n" -> <<"remove">>
          [] t = "DO NOT REMOVE" -> <<"DO", "NOT", "REMOVE">>
          [] t = "UNSURE" -> <<"UNSURE">>
          [] t = "" -> <<>>]

VerdictOutputs == {Raises, Answer(NULL)} \cup {Answer(t) : t \in DOMAIN VerdictWords}

\* str.upper()
upper(w) == IF w = "remove" THEN "REMOVE" ELSE w

\* 'REMOVE' in content.strip().upper()
ContainsRemove(text) ==
    \E i \in DOMAIN VerdictWords[text] : upper(VerdictWords[text][i]) = "REMOVE"

\* analyze_lead_worker: the 'decision' of its result
analyze_lead_worker(out) ==
    IF out.raises \/ out.content = NULL THEN "KEEP"
    ELSE IF ContainsRemove(out.content) THEN "REMOVE" ELSE "KEEP"

\* json.loads: the value a text encodes, if any.  fields are the keys of an
\* object, truthy is bool(value["likely_150k_plus"])
NotJson == [valid |-> FALSE, object |-> FALSE, fields |-> {}, truthy |-> FALSE]
JsonObject(fields, truthy) ==
    [valid |-> TRUE, object |-> TRUE, fields |-> fields, truthy |-> truthy]
JsonNumber == [valid |-> TRUE, object |-> FALSE, fields |-> {}, truthy |-> FALSE]

VerdictFields == {"likely_150k_plus", "confidence", "reasoning"}

\* answers to estimate_salary's prompt
json_loads ==
    [t \in {"{\"likely_150k_plus\": true, \"confidence\": \"high\", \"reasoning\": \"r\"}",
            "{\"likely_150k_plus\": false, \"confidence\": \"high\", \"reasoning\": \"r\"}",
            "{\"likely_150k_plus\": false, \"confidence\": \"high\"}",
            "{\"likely_150k_plus\": true}",
            "{\"confidence\": \"high\"}",
            "0", "Sorry, I cannot help"} |->
        CASE t = "{\"likely_150k_plus\": true, \"confidence\": \"high\", \"reasoning\": \"r\"}"
                -> JsonObject(VerdictFields, TRUE)
          [] t = "{\"likely_150k_plus\": false, \"confidence\": \"high\", \"reasoning\": \"r\"}"
                -> JsonObject(VerdictFields, FALSE)
          [] t = "{\"likely_150k_plus\": false, \"confidence\": \"high\"}"
                -> JsonObject({"likely_150k_plus", "confidence"}, FALSE)
          [] t = "{\"likely_150k_plus\": true}"
                -> JsonObject({"likely_150k_plus"}, TRUE)
          [] t = "{\"confidence\": \"high\"}"
                -> JsonObject({"confidence"}, FALSE)
          [] t = "0" -> JsonNumber
          [] t = "Sorry, I cannot help" -> NotJson]

SalaryOutputs == {Raises, Answer(NULL)} \cup {Answer(t) : t \in DOMAIN json_loads}

\* the value estimate_salary returns when anything in its try block raises
KeepByDefault == JsonObject(VerdictFields, TRUE)

\* estimate_salary: json.loads of the stripped content
estimate_salary(out) ==
    IF out.raises \/ out.content = NULL THEN KeepByDefault
    ELSE IF ~json_loads[out.content].valid THEN KeepByDefault
    ELSE json_loads[out.content]

\* result[key] raises for a value that is no object or lacks the key
HasField(result, key) == result.object /\ key \in result.fields

\* filter_leads_by_salary.main, lines 122-140: the lists a result is added
\* to.  The lead goes on a list before result['reasoning'] is printed; when
\* that raises, the except clause adds it to leads_to_keep
SalaryLists(result) ==
    IF ~HasField(result, "likely_150k_plus") THEN [keep |-> TRUE, remove |-> FALSE]
    ELSE IF result.truthy
         THEN [keep |-> TRUE, remove |-> FALSE]
         ELSE [keep |-> ~HasField(result, "reasoning"), remove |-> TRUE]

\* leads in the table a filtering run reads
MaxFiltered == 2

FilterKinds == {"independent", "salary"}

filterFrame == <<importState, dedup, hookgen, lead_hooks, startVars, logVars>>

\* the run starts and reads all leads; without API key it ends at once
FilterStart(w) ==
    /\ filt.pc \in {"idle", "done", "error"}
    /\ filt' = [NoFilter EXCEPT !.pc = "analyse", !.which = w,
                                !.all_leads = Ids(leads), !.pending = Ids(leads)]
    /\ task_status' =
        IF w = "independent"
        THEN update_task_status(task_status, "filtering",
                [running |-> TRUE, message |-> "Analyzing", progress |-> 0,
                 current |-> 0, stat_value |-> 0,
                 total |-> Cardinality(leads)])
        ELSE task_status
    /\ UNCHANGED <<leads, filterFrame>>

FilterNoKey(w) ==
    /\ filt.pc \in {"idle", "done", "error"}
    /\ filt' = [NoFilter EXCEPT !.pc = "error", !.which = w]
    /\ task_status' =
        IF w = "independent"
        THEN update_task_status(task_status, "filtering",
                [running |-> FALSE, message |-> "Error: No API key",
                 progress |-> 0, current |-> 0, stat_value |-> 0])
        ELSE task_status
    /\ UNCHANGED <<leads, filterFrame>>

FilterOutputs(w) == IF w = "independent" THEN VerdictOutputs ELSE SalaryOutputs

\* as_completed yields the result of one more lead
FilterResult(id) ==
    /\ filt.pc = "analyse"
    /\ id \in filt.pending
    /\ \E out \in FilterOutputs(filt.which) :
       LET remove == IF filt.which = "independent"
                     THEN analyze_lead_worker(out) = "REMOVE"
                     ELSE SalaryLists(estimate_salary(out)).remove
           keep == IF filt.which = "independent"
                   THEN FALSE
                   ELSE SalaryLists(estimate_salary(out)).keep
           n == filt.completed + 1
           removing == filt.leads_to_remove \cup (IF remove THEN {id} ELSE {})
       IN
       /\ filt' = [filt EXCEPT
                !.pending = @ \ {id},
                !.outs = [i \in DOMAIN @ \cup {id} |-> IF i = id THEN out ELSE @[i]],
                !.leads_to_remove = removing,
                !.leads_to_keep = @ \cup (IF keep THEN {id} ELSE {}),
                !.completed = n]
       /\ task_status' =
            IF filt.which = "independent"
               /\ (n % StatusEvery = 0 \/ n = Cardinality(filt.all_leads))
            THEN update_task_status(task_status, "filtering",
                    [current |-> n,
                     progress |-> (n * 100) \div Cardinality(filt.all_leads),
                     stat_value |-> Cardinality(removing), message |-> "Analyzed"])
            ELSE task_status
    /\ UNCHANGED <<leads, filterFrame>>

\* all results are in: DELETE FROM leads WHERE id = ANY(leads_to_remove);
\* the script deletes only after 'DELETE' was typed
FilterDelete(confirmed) ==
    /\ filt.pc = "analyse"
    /\ filt.pending = {}
    /\ filt.which = "independent" => confirmed
    /\ leads' = IF confirmed THEN DeleteFrom(leads, filt.leads_to_remove) ELSE leads
    /\ filt' = [filt EXCEPT !.pc = "done"]
    /\ task_status' =
        IF filt.which = "independent"
        THEN update_task_status(task_status, "filtering",
                [running |-> FALSE, progress |-> 100, completed |-> TRUE,
                 message |-> "Complete"])
        ELSE task_status
    /\ UNCHANGED filterFrame

\* the connection fails: nothing is deleted
FilterRaise ==
    /\ filt.pc = "analyse"
    /\ filt' = [filt EXCEPT !.pc = "error"]
    /\ task_status' =
        IF filt.which = "independent"
        THEN update_task_status(task_status, "filtering",
                [running |-> FALSE, message |-> "Error"])
        ELSE task_status
    /\ UNCHANGED <<leads, filterFrame>>

\* a filtering run works alone on a table of leads
InitFilter ==
    /\ lead_hooks = <<>>
    /\ \E n \in 0..MaxFiltered : leads = {DedupLead(i, "own", NULL, 1) : i \in 1..n}
    /\ InitIdle
    /\ InitTasks
    /\ file = <<>>

NextFilter ==
    \/ \E w \in FilterKinds : FilterStart(w)
    \/ \E w \in FilterKinds : FilterNoKey(w)
    \/ \E id \in Ids(leads) : FilterResult(id)
    \/ \E confirmed \in BOOLEAN : FilterDelete(confirmed)
    \/ FilterRaise

SpecFilter == InitFilter /\ [][NextFilter]_vars

\* ----------------------------------------------------------- Hook generation
\* leads in the table a hook generation run reads
MaxHooked == 3

\* hooks are flushed in batches of BATCH_SIZE (50 in the program, scaled
\* down here with the table)
BATCH_SIZE == 2

\* answers to the hook prompts, each with what .strip() and
\* .strip('"').strip("'") leave of it
HookTexts ==
    [t \in {" \"A hook.\"", "\"\"", " "} |->
        CASE t = " \"A hook.\"" -> [strip |-> "\"A hook.\"", unquoted |-> "A hook."]
          [] t = "\"\"" -> [strip |-> "\"\"", unquoted |-> ""]
          [] t = " " -> [strip |-> "", unquoted |-> ""]]

\* the call raised or gave no text
NoText(out) ==
    out.raises \/ out.content = NULL \/ HookTexts[out.content].strip = ""

HookOutputs == {Raises, Answer(NULL)} \cup {Answer(t) : t \in DOMAIN HookTexts}

\* generate_hook_worker: 'hook' and 'success' of its result
generate_hook_worker(out) ==
    IF out.raises \/ out.content = NULL
    THEN [hook |-> NULL, success |-> FALSE]
    ELSE [hook |-> HookTexts[out.content].unquoted, success |-> TRUE]

\* generate_hook_for_lead: the stripped content, None when anything raises
generate_hook_for_lead(out) ==
    IF out.raises \/ out.content = NULL
    THEN [hook |-> NULL, success |-> TRUE]
    ELSE [hook |-> HookTexts[out.content].strip, success |-> TRUE]

\* `result['success'] and result['hook']`, `if hook:`
SucceededAlways(result) == TRUE

Succeeded(result) == result.success /\ result.hook # NULL /\ result.hook # ""

\* len(batch_buffer) >= BATCH_SIZE or completed == total_leads
FlushDueLate(buffer, completed, total_leads) ==
    Cardinality(buffer) > BATCH_SIZE \/ completed = total_leads

FlushDue(buffer, completed, total_leads) ==
    Cardinality(buffer) >= BATCH_SIZE \/ completed = total_leads

\* UPDATE leads SET hook = %s, hook_generated_at = CURRENT_TIMESTAMP
\* WHERE id = %s, for every item
UpdateHooks(stored, items) ==
    [i \in DOMAIN stored |->
        IF \E item \in items : item.id = i
        THEN [stored[i] EXCEPT
                !.hook = (CHOOSE item \in items : item.id = i).hook,
                !.hook_generated_at = "now"]
        ELSE stored[i]]

\* hook_generation_logs keeps at most MAX_LOGS entries (500 in the program,
\* scaled down here)
MAX_LOGS == 3

\* hook_generation_logs.append({...}): an entry is known by its number
append(logs) ==
    IF logs = Unobserved THEN logs
    ELSE Append(logs, IF logs = <<>> THEN 1 ELSE logs[Len(logs)] + 1)

\* if len(hook_generation_logs) > MAX_LOGS: hook_generation_logs.pop(0)
pop_if_over(logs) ==
    IF logs # Unobserved /\ Len(logs) > MAX_LOGS THEN Tail(logs) ELSE logs

HookKinds == {"background", "script"}

hookFrame == <<importState, dedup, filt, startVars>>

\* the leads a run works on: all of them, or (script) those without hook
LeadsToHook(w) ==
    IF w = "background" THEN Ids(leads)
    ELSE {i \in Ids(leads) : lead_hooks[i].hook \in {NULL, ""}}

HookStart(w) ==
    /\ hookgen.pc \in {"idle", "done", "error"}
    /\ hookgen' = [NoHookRun EXCEPT
            !.pc = "generate", !.which = w, !.all_leads = LeadsToHook(w),
            !.pending = LeadsToHook(w)]
    /\ task_status' =
        IF w = "background"
        THEN update_task_status(task_status, "hook_generation",
                [running |-> TRUE, message |-> "Found", progress |-> 0,
                 current |-> 0, stat_value |-> 0,
                 total |-> Cardinality(leads)])
        ELSE task_status
    /\ hook_generation_logs' =
        IF w = "background" THEN append(append(hook_generation_logs))
        ELSE hook_generation_logs
    /\ UNCHANGED <<leads, lead_hooks, hookFrame>>

HookNoKey ==
    /\ hookgen.pc \in {"idle", "done", "error"}
    /\ hookgen' = [NoHookRun EXCEPT !.pc = "error"]
    /\ task_status' = update_task_status(task_status, "hook_generation",
            [running |-> FALSE, message |-> "Error: No API key",
             progress |-> 0, current |-> 0, stat_value |-> 0])
    /\ hook_generation_logs' = append(append(append(hook_generation_logs)))
    /\ UNCHANGED <<leads, lead_hooks, hookFrame>>

\* generate_hooks_background: as_completed yields one more result; the
\* batch is written when it is due, and dropped when the write fails
HookResult(id, saved) ==
    /\ hookgen.pc = "generate"
    /\ hookgen.which = "background"
    /\ id \in hookgen.pending
    /\ \E out \in HookOutputs :
       LET result == generate_hook_worker(out)
           n == hookgen.completed + 1
           buffer == IF Succeeded(result)
                     THEN hookgen.batch_buffer \cup {[id |-> id, hook |-> result.hook]}
                     ELSE hookgen.batch_buffer
           generated == hookgen.hooks_generated + (IF Succeeded(result) THEN 1 ELSE 0)
           due == FlushDue(buffer, n, Cardinality(hookgen.all_leads))
           logged == pop_if_over(append(hook_generation_logs))
       IN
       /\ due \/ saved
       /\ hook_generation_logs' =
            IF due THEN pop_if_over(append(logged)) ELSE logged
       /\ lead_hooks' = IF due /\ saved THEN UpdateHooks(lead_hooks, buffer)
                        ELSE lead_hooks
       /\ hookgen' = [hookgen EXCEPT
                !.pending = @ \ {id},
                !.failed = @ \cup (IF NoText(out) THEN {id} ELSE {}),
                !.generated = @ \cup (IF Succeeded(result)
                                      THEN {[id |-> id, hook |-> result.hook]}
                                      ELSE {}),
                !.batch_buffer = IF due THEN {} ELSE buffer,
                !.hooks_generated = generated,
                !.completed = n]
       /\ task_status' =
            IF n % StatusEvery = 0 \/ n = Cardinality(hookgen.all_leads)
            THEN update_task_status(task_status, "hook_generation",
                    [current |-> n,
                     progress |-> (n * 100) \div Cardinality(hookgen.all_leads),
                     stat_value |-> generated, message |-> "Generated"])
            ELSE task_status
    /\ UNCHANGED <<leads, hookFrame>>

\* generate_all_hooks.main: the next lead in id order; UPDATE and commit
HookNext(id) ==
    /\ hookgen.pc = "generate"
    /\ hookgen.which = "script"
    /\ id \in hookgen.pending
    /\ \A j \in hookgen.pending : id <= j
    /\ \E out \in HookOutputs :
       LET result == generate_hook_for_lead(out)
           items == IF Succeeded(result) THEN {[id |-> id, hook |-> result.hook]}
                    ELSE {}
       IN
       /\ lead_hooks' = UpdateHooks(lead_hooks, items)
       /\ hookgen' = [hookgen EXCEPT
                !.pending = @ \ {id},
                !.failed = @ \cup (IF NoText(out) THEN {id} ELSE {}),
                !.generated = @ \cup items,
                !.hooks_generated = @ + Cardinality(items),
                !.completed = @ + 1]
    /\ UNCHANGED <<leads, task_status, logVars, hookFrame>>

\* every result is handled: connection closed, CSV written, task complete;
\* the locals are gone
HookFinish ==
    /\ hookgen.pc = "generate"
    /\ hookgen.pending = {}
    /\ hookgen' = [NoHookRun EXCEPT !.pc = "done"]
    /\ task_status' =
        IF hookgen.which = "background"
        THEN update_task_status(task_status, "hook_generation",
                [running |-> FALSE, progress |-> 100, completed |-> TRUE,
                 message |-> "Complete"])
        ELSE task_status
    /\ UNCHANGED <<leads, lead_hooks, logVars, hookFrame>>

\* the connection fails outside the batch write: the run ends, the
\* buffered hooks are lost
HookRaise ==
    /\ hookgen.pc = "generate"
    /\ hookgen' = [NoHookRun EXCEPT !.pc = "error"]
    /\ task_status' =
        IF hookgen.which = "background"
        THEN update_task_status(task_status, "hook_generation",
                [running |-> FALSE, message |-> "Error"])
        ELSE task_status
    /\ hook_generation_logs' =
        IF hookgen.which = "background" THEN append(hook_generation_logs)
        ELSE hook_generation_logs
    /\ UNCHANGED <<leads, lead_hooks, hookFrame>>

\* hook generation works alone on a table of leads, some with a hook
NoHook == [hook |-> NULL, hook_generated_at |-> NULL]
OldHook == [hook |-> "An old hook.", hook_generated_at |-> "before"]

InitHooks ==
    /\ \E n \in 0..MaxHooked :
        /\ leads = {DedupLead(i, "own", NULL, 1) : i \in 1..n}
        /\ lead_hooks \in [1..n -> {NoHook, OldHook}]
    /\ InitIdle
    /\ InitTasks
    /\ file = <<>>

NextHooks ==
    \/ \E w \in HookKinds : HookStart(w)
    \/ HookNoKey
    \/ \E id \in Ids(leads), saved \in BOOLEAN : HookResult(id, saved)
    \/ \E id \in Ids(leads) : HookNext(id)
    \/ HookFinish
    \/ HookRaise

SpecHooks == InitHooks /\ [][NextHooks]_vars

\* the process has just started: the log is empty; a table of up to two
\* leads
InitLogs ==
    /\ \E n \in 0..2 :
        /\ leads = {DedupLead(i, "own", NULL, 1) : i \in 1..n}
        /\ lead_hooks = [i \in 1..n |-> NoHook]
    /\ InitIdle
    /\ task_status = [t \in TaskNames |-> NotStarted]
    /\ dedup = NoDedup /\ dedup_other = NoDedup /\ polled = FALSE
    /\ filt = NoFilter /\ hookgen = NoHookRun
    /\ hook_generation_logs = <<>>
    /\ file = <<>>

\* entries appended since the process started
Appended == IF hook_generation_logs = <<>> THEN 0
            ELSE hook_generation_logs[Len(hook_generation_logs)]

\* runs are started until this many entries have been appended
LogCap == 2 * MAX_LOGS + 2

\* runs of generate_hooks_background, one after the other
NextLogs ==
    \/ Appended < LogCap /\ HookStart("background")
    \/ Appended < LogCap /\ HookNoKey
    \/ \E id \in Ids(leads), saved \in BOOLEAN : HookResult(id, saved)
    \/ HookFinish
    \/ HookRaise

SpecLogs == InitLogs /\ [][NextLogs]_vars

\* ------------------------------------------------------------- Task control
\* CREATE TABLE IF NOT EXISTS task_status ...; INSERT INTO task_status
\* (task_name) VALUES (...) ON CONFLICT (task_name) DO NOTHING
init_task_status_table_anew(ts) == [t \in TaskNames |-> NotStarted]

init_task_status_table(ts) ==
    [t \in DOMAIN ts \cup TaskNames |-> IF t \in DOMAIN ts THEN ts[t] ELSE NotStarted]

startFrame == <<importState, filt, hookgen, lead_hooks, logVars>>

\* /api/task-status: the table is initialised, then read
api_task_status ==
    /\ task_status' = init_task_status_table(task_status)
    /\ polled' = (polled \/ \E t \in DOMAIN task_status : task_status[t].running)
    /\ UNCHANGED <<leads, dedup, dedup_other, startFrame>>

\* the scheduler turns to the other deduplication thread (or to the free
\* place of one): dedup is the thread that takes the next step
Switch ==
    /\ dedup # dedup_other
    /\ dedup' = dedup_other
    /\ dedup_other' = dedup
    /\ UNCHANGED <<leads, task_status, polled, startFrame>>

\* a database whose task_status table may lack rows; the leads, if any,
\* share one linkedin_url
InitStart ==
    /\ lead_hooks = <<>>
    /\ \E n \in 0..2 : leads = {DedupLead(i, "own", "L1", i) : i \in 1..n}
    /\ InitIdle
    /\ InitThreads
    /\ \E D \in SUBSET TaskNames : task_status = [t \in D |-> NotStarted]
    /\ file = <<>>

NextStart ==
    \/ api_task_status
    \/ api_start_deduplication
    \/ Switch
    \/ DedupBegin
    \/ DedupSelect
    \/ DedupGroup
    \/ DedupFinish
    \/ DedupRaise

SpecStart == InitStart /\ [][NextStart]_vars

\* ----------------------------------------------------- Tasks under a scheduler
\* the database cannot be reached: a statement of the task raises, and in
\* the except clause update_task_status raises too, which it only prints
DedupLost ==
    /\ dedup.pc \in {"select", "loop"}
    /\ dedup' = [dedup EXCEPT !.pc = "error"]
    /\ UNCHANGED <<leads, task_status, dedupFrame>>

FilterLost ==
    /\ filt.pc = "analyse"
    /\ filt' = [filt EXCEPT !.pc = "error"]
    /\ UNCHANGED <<leads, task_status, filterFrame>>

HookLost ==
    /\ hookgen.pc = "generate"
    /\ hookgen' = [NoHookRun EXCEPT !.pc = "error"]
    /\ hook_generation_logs' = append(hook_generation_logs)
    /\ UNCHANGED <<leads, task_status, lead_hooks, hookFrame>>

\* no background thread is alive, and the task has not run before
NoTask(task_name) ==
    /\ dedup.pc \in {"idle", "done", "error"}
    /\ filt.pc \in {"idle", "done", "error"}
    /\ hookgen.pc \in {"idle", "done", "error"}
    /\ task_status[task_name] = NotStarted

\* the three tasks of the panel on a small table, started one at a time
InitTasksRun ==
    /\ \E n \in 0..2 :
        /\ leads = {DedupLead(i, "own", "L1", i) : i \in 1..n}
        /\ lead_hooks = [i \in 1..n |-> NoHook]
    /\ InitIdle
    /\ InitTasks
    /\ file = <<>>

\* the steps a live thread takes by itself
DedupStep == DedupBegin \/ DedupSelect \/ DedupGroup \/ DedupFinish

FilterStep == (\E id \in Ids(leads) : FilterResult(id)) \/ FilterDelete(TRUE)

HookStep ==
    (\E id \in Ids(leads), saved \in BOOLEAN : HookResult(id, saved)) \/ HookFinish

NextTasksRun ==
    \/ NoTask("deduplication") /\ api_start_deduplication
    \/ DedupStep
    \/ DedupRaise
    \/ DedupLost
    \/ NoTask("filtering") /\ FilterStart("independent")
    \/ NoTask("filtering") /\ FilterNoKey("independent")
    \/ FilterStep
    \/ FilterRaise
    \/ FilterLost
    \/ NoTask("hook_generation") /\ HookStart("background")
    \/ NoTask("hook_generation") /\ HookNoKey
    \/ HookStep
    \/ HookRaise
    \/ HookLost

\* a thread that can take a step takes one
SpecTasksRun ==
    /\ InitTasksRun
    /\ [][NextTasksRun]_vars
    /\ WF_vars(DedupStep \/ DedupRaise)
    /\ WF_vars(FilterStep \/ FilterRaise)
    /\ WF_vars(HookStep \/ HookRaise)

\* -------------------------------------------------------------- Admin panel
\* the columns of leads that only the panel writes, with their defaults
NotViewed == [viewed |-> FALSE, viewed_at |-> NULL, viewed_by |-> NULL]

NewLead == NoHook @@ NotViewed

Users == {"admin"}

\* the ids of the leads the panel's uploads create: one per profile URL
PanelIds == 1..Cardinality(URLS)

panelFrame == <<history, nextId, committedWrites, connVars, locVars,
                ghostVars, pc, started, file, dedup, filt, startVars>>

\* /api/mark-viewed/<lead_id>: UPDATE leads SET viewed = TRUE, ... WHERE id
api_mark_viewed(lead_id, user) ==
    /\ lead_id \in Ids(leads)
    /\ lead_hooks' = [lead_hooks EXCEPT ![lead_id] =
            [@ EXCEPT !.viewed = TRUE, !.viewed_at = "now", !.viewed_by = user]]
    /\ UNCHANGED <<leads, task_status, hookgen, logVars, panelFrame>>

\* /api/generate-hook/<lead_id>: the hook is stored when there is one
api_generate_hook(lead_id) ==
    /\ lead_id \in Ids(leads)
    /\ \E out \in HookOutputs :
        LET result == generate_hook_for_lead(out)
            items == IF Succeeded(result) THEN {[id |-> lead_id, hook |-> result.hook]}
                     ELSE {}
        IN lead_hooks' = UpdateHooks(lead_hooks, items)
    /\ UNCHANGED <<leads, task_status, hookgen, logVars, panelFrame>>

\* the rows a generated_hooks_*.csv file can hold
CsvHooks == {[id |-> i, hook |-> "A hook."] : i \in PanelIds}

\* /api/load-hooks-from-csv: UPDATE leads SET hook = ... WHERE id, for every
\* row of the file, then one commit; a row whose lead is gone updates nothing
api_load_hooks_from_csv(rows) ==
    /\ lead_hooks' = UpdateHooks(lead_hooks, {r \in rows : r.id \in Ids(leads)})
    /\ UNCHANGED <<leads, task_status, hookgen, logVars, panelFrame>>

\* the panel on an empty database: uploads, views and hooks
InitPanel ==
    /\ InitImport
    /\ InitTasks
    /\ lead_hooks = [i \in PanelIds |-> NewLead]
    /\ file = <<>>

\* no upload and no bulk hook generation is under way
Quiet == (\A c \in Procs : Ended(c)) /\ hookgen.pc # "generate"

\* the operations of the panel, one after the other
NextPanel ==
    \/ \E c \in One : Quiet /\ StartImport(c, "process_csv")
    \/ \E c \in One : UpsertRow(c, ConcRows)
    \/ \E c \in One : WriteHistory(c)
    \/ \E c \in One : RunDedupe(c)
    \/ \E c \in One : Commit(c)
    \/ \E id \in PanelIds, user \in Users : Quiet /\ api_mark_viewed(id, user)
    \/ \E id \in PanelIds : Quiet /\ api_generate_hook(id)
    \/ \E rows \in SUBSET CsvHooks : Quiet /\ api_load_hooks_from_csv(rows)
    \/ Quiet /\ HookStart("background")
    \/ \E id \in Ids(leads), saved \in BOOLEAN : HookResult(id, saved)
    \/ HookFinish

SpecPanel == InitPanel /\ [][NextPanel]_vars

\* -------------------------------------------------------------- properties
UrlsOf(S) == {l.profile_url : l \in S}
WithUrl(S, u) == {l \in S : l.profile_url = u}
Empty(v) == v \in {NULL, ""}
FillFields == {"email_address", "phone_number", "notes", "feedback"}
ReplaceFields ==
    {"first_name", "last_name", "headline", "location", "current_title",
     "current_company", "active_project"}
Running(c) == pc[c] \in {"rows", "dedupe", "commit"}
OwnsConn(k) == k \in {"process_csv", "csv_uploader"}
HistoryFiles == {history[i].filename : i \in 1..Len(history)}

\* in this step c reads one more row of its file
ReadsRow(c) == pc[c] = "rows" /\ idx'[c] = idx[c] + 1
\* ... and the row's upsert is executed without error
WritesRow(c) == ReadsRow(c) /\ rows_failed'[c] = rows_failed[c]

\* C1: after any sequence of imports, one after another or overlapping on
\* separate connections, the leads table holds at most one record for each
\* non-empty profile_url.
C1_OneRecordPerProfileUrl ==
    \A l \in leads, m \in leads :
        (l.profile_url = m.profile_url /\ ~Empty(l.profile_url)) => l = m

\* two imports overlapped (the later one committed first) and the earlier
\* one then wrote a profile_url the later one had inserted
C1_Witness ==
    /\ Len(history) = 2
    /\ history[1].filename = 2 /\ history[1].rows_inserted >= 1
    /\ history[2].filename = 1 /\ history[2].rows_updated >= 1
    /\ leads # {}

\* C2: a row whose normalized profile_url is absent or empty adds exactly 1
\* to the failed count, causes no write to the leads table (no statement is
\* issued on the connection), and the import goes on with the next row.
C2_MissingKeyRowSkipped ==
    [][\A c \in Procs :
        (ReadsRow(c) /\ Empty(data'[c]["profile_url"])) =>
            /\ rows_failed'[c] = rows_failed[c] + 1
            /\ rows_inserted'[c] = rows_inserted[c]
            /\ rows_updated'[c] = rows_updated[c]
            /\ leads' = leads /\ pend' = pend /\ pdel' = pdel
            /\ tx' = tx /\ nextId' = nextId
            /\ pc'[c] = "rows"]_vars

\* a row without key was counted as failed and the next row was inserted
C2_Witness ==
    \E c \in Procs :
        /\ pc[c] = "rows" /\ idx[c] = 2
        /\ nokey[c] = 1 /\ rows_failed[c] = 1 /\ rows_inserted[c] = 1
        /\ ~Empty(data[c]["profile_url"])

\* C3: when the storage write of one row raises, only that row is counted
\* as failed (every other keyed row is still written and counted), and the
\* rows written before it are persisted when the import ends.
C3_RowFailureIsLocal ==
    [][\A c \in Procs :
        /\ pc'[c] = "rows" => rows_failed'[c] = nokey'[c] + faults'[c]
        /\ (Running(c) /\ ~Running(c)' /\ faults[c] >= 1 /\ OwnsConn(kind[c]))
              => UrlsOf(pend[c]) \subseteq UrlsOf(leads')]_vars

\* C4: an import whose keyed rows are all written without error reports
\* inserted = number of distinct profile_url values of the file not stored
\* before, updated = keyed rows - inserted, failed = rows without
\* profile_url, and the leads table grows by exactly inserted.  (Imports run
\* one after another; importers that own their connection.)
C4_ImportCounts ==
    [][\A c \in Procs :
        (pc[c] = "commit" /\ pc'[c] = "done" /\ OwnsConn(kind[c]) /\ faults[c] = 0) =>
            LET newUrls == UrlsOf(pend[c]) \ UrlsOf(leads) IN
            /\ rows_inserted[c] = Cardinality(newUrls)
            /\ Cardinality(leads') = Cardinality(leads) + rows_inserted[c]
            /\ rows_updated[c] = (idx[c] - nokey[c]) - rows_inserted[c]
            /\ rows_failed[c] = nokey[c]]_vars

\* a second import of two keyed rows, one key stored before, is about to
\* commit with inserted = 1 and updated = 1
C4_Witness ==
    \E c \in Procs :
        /\ pc[c] = "commit" /\ kind[c] = "process_csv" /\ faults[c] = 0
        /\ rows_inserted[c] = 1 /\ rows_updated[c] = 1
        /\ Len(history) = 1 /\ history[1].rows_inserted = 1
        /\ UrlsOf(pend[c]) = URLS

\* C5: importing a row whose profile_url is already stored creates no new
\* lead record; the row is counted once as updated and not as inserted.
C5_ExistingKeyIsUpdated ==
    [][\A c \in Procs :
        (WritesRow(c) /\ data'[c]["profile_url"] \in UrlsOf(View(c))) =>
            /\ Cardinality(View(c)') = Cardinality(View(c))
            /\ Ids(View(c)') = Ids(View(c))
            /\ rows_updated'[c] = rows_updated[c] + 1
            /\ rows_inserted'[c] = rows_inserted[c]]_vars

\* the first row of a file hit a stored profile_url and was counted updated
C5_Witness ==
    \E c \in Procs :
        /\ pc[c] = "rows" /\ idx[c] = 1
        /\ rows_updated[c] = 1 /\ rows_inserted[c] = 0
        /\ data[c]["profile_url"] \in UrlsOf(leads)

\* C6: an update leaves each fill-if-empty field with the incoming value if
\* that is non-empty and with the stored value otherwise; every other
\* imported field takes the incoming value, empty or not.
C6_UpdateFieldRule ==
    [][\A c \in Procs :
        (WritesRow(c) /\ data'[c]["profile_url"] \in UrlsOf(View(c))) =>
            LET d == data'[c] IN
            \A old \in WithUrl(View(c), d["profile_url"]) :
                \E new \in WithUrl(View(c)', d["profile_url"]) :
                    /\ \A f \in FillFields :
                          new[f] = IF Empty(d[f]) THEN old[f] ELSE d[f]
                    /\ \A f \in ReplaceFields : new[f] = d[f]]_vars

\* a stored lead was updated with empty cells: its e-mail address survived,
\* its first name was cleared
C6_Witness ==
    \E c \in Procs : \E l \in pend[c] :
        /\ pc[c] = "rows" /\ idx[c] >= 1 /\ rows_updated[c] >= 1
        /\ data[c]["profile_url"] = l.profile_url
        /\ data[c]["email_address"] = "" /\ l.email_address = "a"
        /\ data[c]["first_name"] = "" /\ l.first_name = ""

C8_StatusReflectsFailures ==
    \A i \in 1..Len(history) :
        history[i].status =
            IF history[i].rows_failed = 0 THEN "success" ELSE "partial"

\* C9: when an import fails fatally part-way through a file (the summary
\* write fails after an unrecovered storage error, or the dedupe call or the
\* commit fails), an upload-run record of that import is persisted.
C9_RunRecordAfterFatalFailure ==
    [][\A c \in Procs :
        (Running(c) /\ pc'[c] = "raised" /\ (tx[c] = "aborted" \/ pc[c] # "rows"))
            => \E i \in 1..Len(history') : history'[i].filename = filename[c]]_vars

\* C10: the lead writes of a file are committed together with the file's
\* upload-run record by the importer's single commit: while the import runs
\* nothing of the file is committed, its transaction holds writes of this
\* file only, its commit persists the writes and the run record in one
\* step, and an import that raises before the commit leaves no lead write
\* and no run record (process_csv, csv_uploader).
C10_FileIsOneTransaction ==
    [][\A c \in Procs :
        (Running(c) /\ OwnsConn(kind[c])) =>
            /\ wrote[c] \subseteq {filename[c]}
            /\ filename[c] \notin (committedWrites \cup HistoryFiles)
            /\ pc'[c] = "done" =>
                  /\ wrote[c] \subseteq committedWrites'
                  /\ filename[c] \in HistoryFiles'
                  /\ leads' = View(c)
            /\ pc'[c] = "raised" =>
                  /\ filename[c] \notin (committedWrites' \cup HistoryFiles')
                  /\ leads' = leads]_vars

\* the only import so far wrote a lead (an id was drawn) and then raised:
\* its connection is gone and the table is still empty
C10_Witness ==
    \E c \in Procs :
        /\ pc[c] = "raised" /\ tx[c] = "none"
        /\ started = 1 /\ nextId > 1 /\ leads = {}

\* C11: every import that returns to its caller has added exactly one
\* upload_history record, its own; no step changes or removes a record that
\* is already stored, and a step in which no import returns adds none.
C11_HistoryAppendOnly ==
    [][/\ Len(history') >= Len(history)
       /\ SubSeq(history', 1, Len(history)) = history
       /\ \A c \in Procs :
             (Running(c) /\ pc'[c] = "done") =>
                 /\ Len(history') = Len(history) + 1
                 /\ history'[Len(history')].filename = filename[c]
       /\ (\A c \in Procs : ~(Running(c) /\ pc'[c] = "done")) =>
             history' = history]_vars

\* two imports have returned and each has its record, in commit order
C11_Witness ==
    /\ Len(history) = 2
    /\ history[1].filename # history[2].filename
    /\ \A c \in Procs : pc[c] = "done"

\* C12: in every importer the upload-run record is written after the last
\* row (no row is read once it is written), the write is followed by the one
\* call of the Deduplicator, and the import commits and returns only after
\* that call, whose result goes into the summary.
C12_DedupeOncePerImport ==
    [][\A c \in Procs :
        /\ ReadsRow(c) => phist[c] = <<>> \/ KeepsConn(kind[c])
        /\ (pc[c] = "rows" /\ Len(phist'[c]) > Len(phist[c])) => pc'[c] = "dedupe"
        /\ (pc[c] # "commit" /\ pc'[c] = "commit") => pc[c] = "dedupe"]_vars

\* C13: each error description process_csv records carries the number of
\* the row that caused it, the first data row being row 1.
C13_ErrorRowNumbers ==
    [][\A c \in Procs :
        (kind[c] = "process_csv" /\ Len(errors'[c]) = Len(errors[c]) + 1) =>
            errors'[c][Len(errors'[c])].row_num = idx'[c]]_vars

\* number of rows of a file that carry a profile_url
RECURSIVE KeyedRows(_)
KeyedRows(f) ==
    IF f = <<>> THEN 0
    ELSE (IF HasKey(Normalize(Head(f))) THEN 1 ELSE 0) + KeyedRows(Tail(f))

\* C14: when the same file is imported again right after an import of it,
\* the table has as many leads after the second run as before it, the
\* second run counts no insert and counts every row with a profile_url as
\* updated, and the dedupe pass of every run removes nothing.
C14_ReimportIsIdempotent ==
    [][\A c \in One :
        (pc[c] = "commit" /\ pc'[c] = "done") =>
            /\ dedupe_result[c] = 0
            /\ filename[c] >= 2 =>
                  /\ Cardinality(leads') = Cardinality(leads)
                  /\ rows_inserted[c] = 0
                  /\ rows_updated[c] = KeyedRows(file)]_vars

\* the second import of a file with keyed and keyless rows has returned
C14_Witness ==
    /\ started = 2 /\ pc["p1"] = "done"
    /\ Len(history) = 2
    /\ history[2].rows_inserted = 0
    /\ history[2].rows_updated = 2
    /\ history[1].rows_inserted = 1
    /\ Cardinality(leads) = 1

\* the groups of a table: the leads that share one non-empty linkedin_url
GroupsOf(table) == {GroupOf(table, l.linkedin_url) : l \in {m \in table : Grouped(m)}}

RECURSIVE Surplus(_)
Surplus(groups) ==
    IF groups = {} THEN 0
    ELSE LET G == CHOOSE G \in groups : TRUE
         IN (Cardinality(G) - 1) + Surplus(groups \ {G})

DedupCompletes == dedup.pc = "loop" /\ dedup'.pc = "done"

\* C15: when a run of run_deduplication_background completes, of every
\* group of leads the run found sharing a key exactly one is left, one
\* created no later than any other of the group; every lead that shared its
\* key with nobody is still stored; and the removed count the run reports is
\* the sum over the groups of (size - 1).
C15_KeepsEarliestOfEachGroup ==
    [][DedupCompletes =>
        /\ leads' \subseteq dedup.table0
        /\ \A G \in GroupsOf(dedup.table0) :
            /\ Cardinality(G \cap leads') = 1
            /\ \A k \in G \cap leads' : \A g \in G : k.created_at <= g.created_at
        /\ \A l \in dedup.table0 :
            (~Grouped(l) \/ GroupOf(dedup.table0, l.linkedin_url) = {l}) => l \in leads'
        /\ dedup.total_removed = Surplus(GroupsOf(dedup.table0))
        /\ task_status'["deduplication"].stat_value = dedup.total_removed]_vars

\* a run over two groups of two has completed and removed one lead of each
C15_Witness ==
    /\ dedup.pc = "done" /\ dedup.prev = "idle"
    /\ dedup.total_groups = 2 /\ dedup.total_removed = 2
    /\ Cardinality(dedup.table0) = 4 /\ Cardinality(leads) = 2
    /\ \E l \in leads : l.created_at = 1 /\ l.id = 2

\* C16: a run of the deduplicator that follows a completed run, nothing
\* having been inserted in between, removes no lead: it reports zero and
\* leaves the table as it found it.
C16_DedupIdempotent ==
    [][(DedupCompletes /\ dedup.prev = "done") =>
        /\ dedup.total_removed = 0
        /\ dedup.total_groups = 0
        /\ leads' = dedup.table0
        /\ task_status'["deduplication"].stat_value = 0]_vars

\* the second of two completed runs has ended on a table the first one had
\* removed a lead from
C16_Witness ==
    /\ dedup.pc = "done" /\ dedup.prev = "done"
    /\ dedup.total_removed = 0
    /\ \E l \in leads : l.id > Cardinality(leads)
    /\ \E l, m \in leads : l # m

\* C17: the deduplicator groups leads by profile_url and, where that is
\* absent, by linkedin_url: it deletes a lead only if a lead with the same
\* key stays, and when it completes no two stored leads share a key.
C17_GroupsByProfileUrlThenLinkedin ==
    [][LET Key(l) ==
            IF ~Empty(l.profile_url) THEN <<"profile_url", l.profile_url>>
            ELSE IF ~Empty(l.linkedin_url) THEN <<"linkedin_url", l.linkedin_url>>
            ELSE <<"none", l.id>>
       IN
       /\ dedup.pc = "loop" =>
            \A l \in leads \ leads' : \E m \in leads' : Key(m) = Key(l)
       /\ DedupCompletes =>
            \A l, m \in leads' : Key(l) = Key(m) => l = m]_vars

\* the service failed for the lead, or answered something that is not the
\* verdict asked for
NoVerdict(w, out) ==
    \/ out.raises
    \/ out.content = NULL
    \/ w = "independent" /\ out.content \notin {"KEEP", "REMOVE", " remove\n"}
    \/ w = "salary" /\ \E f \in VerdictFields : ~HasField(json_loads[out.content], f)

\* C18: a lead for which the text-generation call raised, or returned
\* something that is not a well-formed verdict, is never on the removal
\* list and stays stored; and the run deletes only when every lead it read
\* has been analysed.
C18_FailedAnalysisKeepsLead ==
    /\ \A id \in DOMAIN filt.outs :
        NoVerdict(filt.which, filt.outs[id]) =>
            /\ id \notin filt.leads_to_remove
            /\ id \in Ids(leads)
    /\ filt.pc = "done" => DOMAIN filt.outs = filt.all_leads

\* C19: a lead for which hook generation failed in a run (the call raised
\* or gave no text) keeps its stored hook and hook_generated_at through
\* that run; the failure does not end the run, and a run that completes has
\* handled every lead it read.
C19_FailedHookIsSkipped ==
    [][/\ \A id \in hookgen'.failed : lead_hooks'[id] = lead_hooks[id]
       /\ hookgen'.failed \ hookgen.failed # {} => hookgen'.pc = "generate"
       /\ (hookgen.pc = "generate" /\ hookgen'.pc = "done") =>
            /\ hookgen.completed = Cardinality(hookgen.all_leads)
            /\ hookgen.pending = {}]_vars

\* every result of a run is in: generation failed for a lead that had a
\* hook, which it still has, and succeeded for another lead
C19_Witness ==
    /\ hookgen.pc = "generate" /\ hookgen.which = "background"
    /\ hookgen.pending = {}
    /\ hookgen.completed = 3 /\ hookgen.hooks_generated = 1
    /\ \E i \in hookgen.failed : lead_hooks[i] = OldHook
    /\ \E j \in hookgen.all_leads : lead_hooks[j].hook = "A hook."

\* C20: in generate_hooks_background, once a result has been handled the
\* buffer of hooks not yet written holds fewer than BATCH_SIZE hooks, and
\* none once the last result has been handled.
C20_BufferBelowBatchSize ==
    hookgen.which = "background" =>
        /\ Cardinality(hookgen.batch_buffer) < BATCH_SIZE
        /\ hookgen.pending = {} => hookgen.batch_buffer = {}

\* the buffer was written when it reached BATCH_SIZE, with a result still
\* to come
C20_Witness ==
    /\ hookgen.pc = "generate" /\ hookgen.which = "background"
    /\ hookgen.pending # {}
    /\ hookgen.hooks_generated = BATCH_SIZE
    /\ hookgen.batch_buffer = {}
    /\ Cardinality({i \in hookgen.all_leads : lead_hooks[i].hook_generated_at = "now"})
            = BATCH_SIZE

\* C21: an upload (insert or update), mark-viewed, single and bulk hook
\* generation and hook loading from CSV remove no lead: in every step of the
\* panel the only ids that leave table leads are ids the deduplication call
\* of an upload deleted, and only that call deletes
C21_OnlyDedupAndFilterDelete ==
    [][/\ Ids(leads) \ Ids(leads') \subseteq UNION {pdel[c] : c \in Procs}
       /\ \A c \in Procs : pc[c] # "dedupe" => pdel'[c] \subseteq pdel[c]]_vars

\* two uploads, the second one updating, a viewed lead, a bulk run that
\* stored a hook, and both leads still there
C21_Witness ==
    /\ Ids(leads) = PanelIds
    /\ Len(history) = 2 /\ history[2].rows_updated > 0
    /\ \E i \in PanelIds : lead_hooks[i].viewed
    /\ \E i \in PanelIds : lead_hooks[i].hook = "A hook."
    /\ task_status["hook_generation"].completed
    /\ task_status["hook_generation"].stat_value > 0

\* what normalize_column_name is to return for header h
InternalName(h) ==
    IF h \in Headers THEN mapping[h] ELSE replace[lower[h]]

\* C22: normalize_column_name gives each of the twelve headers of its table
\* the table's field name and every other header its lower-cased text with
\* each space replaced by an underscore: the normalized row holds the cell
\* of every header under exactly that name, whatever was imported before
C22_NormalizeColumnName ==
    \A c \in Procs :
        (pc[c] = "rows" /\ idx[c] > 0) =>
            /\ DOMAIN data[c] = {InternalName(h) : h \in DOMAIN file[idx[c]]}
            /\ \A h \in DOMAIN file[idx[c]] :
                    data[c][InternalName(h)] = file[idx[c]][h]

\* a second upload has read a row with a lower-case key header and a column
\* outside the table
C22_Witness ==
    /\ pc["p1"] = "rows" /\ idx["p1"] = 1 /\ Len(history) = 1
    /\ "Profile URL" \notin DOMAIN file[1]
    /\ {"profile_url", "company_size"} \subseteq DOMAIN data["p1"]
    /\ data["p1"]["profile_url"] = "u1"
    /\ "first_name" \in DOMAIN data["p1"]

\* the thread has been started and has not ended
Alive(thread) == thread.pc \in {"start", "select", "loop"}

\* C23: at most one deduplication thread is alive at any time
C23_OneDedupTask == ~(Alive(dedup) /\ Alive(dedup_other))

\* C24: hook_generation_logs never holds more than MAX_LOGS entries
C24_LogsBounded == Len(hook_generation_logs) <= MAX_LOGS

\* C25: when generate_hooks_background reports completion, every hook the
\* run generated is stored with its lead
C25_GeneratedHooksAreStored ==
    [][(hookgen.pc = "generate" /\ hookgen.which = "background"
            /\ hookgen'.pc = "done") =>
        \A item \in hookgen.generated :
            /\ lead_hooks'[item.id].hook = item.hook
            /\ lead_hooks'[item.id].hook_generated_at = "now"]_vars

\* C26: a task whose row says running = TRUE gets its row set back to
\* running = FALSE
C26_RunningIsReset ==
    \A t \in TaskNames : task_status[t].running ~> ~task_status[t].running

\* C27: in upload_all_csvs a file that follows a failed file is imported
\* like any other: a row of it that carries a profile_url is refused for an
\* aborted transaction only after a statement of this same file failed
C27_LaterFilesAreImported ==
    [][\A c \in Procs :
        (/\ kind[c] = "upload_all_csvs"
         /\ pc[c] = "rows"
         /\ tx[c] = "aborted"
         /\ idx'[c] = idx[c] + 1
         /\ nokey'[c] = nokey[c]) => faults[c] > 0]_vars

C29_StatusConsistent ==
    \A t \in DOMAIN task_status :
        /\ 0 <= task_status[t].progress
        /\ task_status[t].progress <= 100
        /\ task_status[t].current <= task_status[t].total
        /\ (~task_status[t].running /\ task_status[t].completed) =>
                task_status[t].progress = 100

\* C30: a poll of /api/task-status, the only step that calls
\* init_task_status_table, leaves every existing row of task_status as it
\* is and adds the missing rows of the three tasks with their defaults; on
\* a table that has the three rows it changes nothing, however often it is
\* called and whether or not a task is running
C30_InitTaskStatusIdempotent ==
    [][(dedup' = dedup /\ dedup_other' = dedup_other) =>
        /\ DOMAIN task_status' = DOMAIN task_status \cup TaskNames
        /\ \A t \in DOMAIN task_status : task_status'[t] = task_status[t]
        /\ \A t \in TaskNames \ DOMAIN task_status : task_status'[t] = NotStarted
        /\ TaskNames \subseteq DOMAIN task_status => task_status' = task_status]_vars

\* the table was polled while deduplication was marked running, and the
\* task is still at work with its row as it wrote it
C30_Witness ==
    /\ polled
    /\ DOMAIN task_status = TaskNames
    /\ dedup.pc = "loop"
    /\ task_status["deduplication"].running
    /\ task_status["deduplication"].message = "Found"
    /\ task_status["deduplication"].total = 1
====
